---- MODULE Spec2Model ----
(***************************************************************************)
(* Model of django-minify-compress-staticfiles: the settings accessor      *)
(* (conf.py), the eligibility helpers (utils.py) and the storage pipeline  *)
(* (storage.py): process_minification, process_compression, post_process   *)
(* and _update_manifest.                                                   *)
(*                                                                         *)
(* Paths are records [abs, dirs, segs]: the directory components and the   *)
(* dot-separated segments of the file name, so that pathlib's stem/suffix  *)
(* split, the ".min." substring test and the ".gz"/".br" suffixes are      *)
(* computed the way the code computes them.  A name segment is a record    *)
(* [t, s, of]: a literal piece of text (t = "lit") or the hex digest of a  *)
(* byte string (t = "md5", of = the bytes that were hashed).               *)
(***************************************************************************)
EXTENDS Integers, Sequences, FiniteSets, TLC

VARIABLES
    defaults,      \* conf.DEFAULT_SETTINGS, the module-level table
    settings,      \* the host configuration: MINICOMPRESS_<name> -> value
    files,         \* the asset root: path -> content
    manifest,      \* the persisted manifest file
    fault,         \* the environment's failure in this run (at most one)
    call,          \* the operation invoked and its arguments
    pc,            \* position inside that operation
    loc,           \* post_process locals: processed_paths, minified_files, all_paths
    results,       \* what post_process has yielded to its caller so far
    ret,           \* the value returned by a stage called directly
    exc,           \* the exception that left the operation, "none" if none
    log            \* storage events in program order

vars == <<defaults, settings, files, manifest, fault, call, pc, loc, results, ret, exc, log>>

----------------------------------------------------------------------------
(* Bounds of the model *)

MaxPaths == 2

----------------------------------------------------------------------------
(* Paths and file names *)

Lit(s) == [t |-> "lit", s |-> s, of |-> <<>>]

RelPath(dirs, names) == [abs |-> FALSE, dirs |-> dirs, segs |-> [i \in 1..Len(names) |-> Lit(names[i])]]

AbsPath(dirs, names) == [abs |-> TRUE, dirs |-> dirs, segs |-> [i \in 1..Len(names) |-> Lit(names[i])]]

\* str.lower() on the extensions that occur
Lower(s) == IF s = "CSS" THEN "css" ELSE IF s = "JS" THEN "js" ELSE s

\* pathlib: Path(p).suffix, as the sequence of segments after the stem (<<>> or one)
PathSuffix(p) ==
    LET n == Len(p.segs) IN
    IF n >= 2 /\ ~(n = 2 /\ p.segs[1] = Lit("")) /\ p.segs[n] # Lit("")
    THEN <<p.segs[n]>> ELSE <<>>

\* pathlib: Path(p).stem
PathStem(p) == SubSeq(p.segs, 1, Len(p.segs) - Len(PathSuffix(p)))

\* utils.normalize_extension applied to a suffix: lower-case, leading dot stripped
normalize_extension(suffix) == IF suffix = <<>> THEN "" ELSE Lower(suffix[1].s)

\* FileProcessorMixin._get_file_type
get_file_type(p) == IF PathSuffix(p) = <<>> THEN "" ELSE Lower(PathSuffix(p)[1].s)

\* a variant of WithSuffix that keeps the name of the source
InPlace(p, ext) == p

\* f"{path}{ext}": a literal suffix appended to the whole path string
WithSuffix(p, ext) == [p EXCEPT !.segs = Append(p.segs, Lit(ext))]

\* os.path.isabs + Path(p).parts[1:]: the root is dropped, the rest is kept
StorageRelative(p) == IF p.abs THEN [p EXCEPT !.abs = FALSE] ELSE p

\* hashlib.md5(bytes).hexdigest()[:12], kept symbolic: the digest of a byte string
generate_file_hash(bytes) == [t |-> "md5", s |-> "", of |-> bytes]

PathBytes(p) == <<[path |-> p]>>

ContentBytes(c) == <<[content |-> c]>>

----------------------------------------------------------------------------
(* Settings *)

\* conf.DEFAULT_SETTINGS as conf.py defines it
DEFAULT_SETTINGS ==
    [ENABLED |-> TRUE, MINIFY_FILES |-> TRUE, BROTLI_COMPRESSION |-> TRUE,
     GZIP_COMPRESSION |-> TRUE, MIN_FILE_SIZE |-> 200,
     COMPRESSION_LEVEL_GZIP |-> 9, COMPRESSION_LEVEL_BROTLI |-> 11,
     PRESERVE_COMMENTS |-> TRUE,
     SUPPORTED_EXTENSIONS |-> {"css", "js", "txt", "xml", "json", "svg", "md", "rst", "html", "htm"},
     EXCLUDE_PATTERNS |-> << [star |-> TRUE, head |-> "", tail |-> <<"min", "*">>],
                             [star |-> TRUE, head |-> "-min", tail |-> <<"*">>] >>]

\* the two rows the settings table of the specification adds to conf.py's table
TABLE_ROWS_OF_SPEC == [MAX_FILES_PER_RUN |-> 1000, MAX_FILE_SIZE |-> 10485760]

\* conf.get_setting(name, default): getattr(settings, "MINICOMPRESS_" + name, default)
get_setting(name, default) == IF name \in DOMAIN settings THEN settings[name] ELSE default

\* DEFAULT_SETTINGS[name] raises KeyError for a name the table does not hold
HasDefault(name) == name \in DOMAIN defaults

\* get_setting(name, DEFAULT_SETTINGS[name]) where the table holds the name
Setting(name) == get_setting(name, defaults[name])

\* `x or d` for an integer setting
OrInt(x, d) == IF x = 0 THEN d ELSE x

\* the literal fallbacks written at the call sites (`... or 1000`)
MAX_FILES_FALLBACK == 1000

MAX_SIZE_FALLBACK == 10485760

MIN_SIZE_FALLBACK == 200

GZIP_LEVEL_FALLBACK == 6

BROTLI_LEVEL_FALLBACK == 4

GZIP_LEVEL_MAX == 9

BROTLI_LEVEL_MAX == 11

----------------------------------------------------------------------------
(* File contents and the external codecs *)

\* a stored byte string: which text it is, its length, whether it decodes as
\* UTF-8, the transformations applied to it, and the level of the last encoder
Content(id, len, text) == [id |-> id, len |-> len, text |-> text, enc |-> <<>>, lvl |-> 0]

\* rcssmin.cssmin / rjsmin.jsmin: the length of the minifier's output for each text
MinifiedLen(c) ==
    CASE c.id = "big"  -> 250
      [] c.id = "mid"  -> 150
      [] c.id = "tiny" -> 14
      [] c.id = "lib"  -> 280
      [] OTHER         -> c.len

\* the minifier's output for a text
Minifier(c) == [c EXCEPT !.len = MinifiedLen(c), !.enc = Append(c.enc, "min")]

\* the environment's failure concerns the files whose name starts with FaultyName
\* (storage failures) or whose text is FaultyText (codec failures)
FaultyName == "app"

FaultyText == "big"

\* rcssmin / rjsmin raise on this content
MinifierRaises(c) == fault = "minify" /\ c.id = FaultyText

\* gzip.GzipFile(...).write / brotli.compress: an encoded copy at the given level
Encoded(c, codec, level) ==
    [c EXCEPT !.len = (c.len \div 4) + 18, !.text = FALSE,
              !.enc = Append(c.enc, codec), !.lvl = level]

----------------------------------------------------------------------------
(* utils.py: eligibility *)

\* `".min." in filename`: some inner segment of the name is exactly "min"
HasDotMinDot(segs) == \E i \in 2..(Len(segs) - 1) : segs[i] = Lit("min")

\* str.endswith on the texts that occur
StrEndsWith(s, t) == t = "" \/ s = t \/ <<s, t>> \in {<<"app-min", "-min">>}

\* `"-min." in filename`: some segment before the last ends with "-min"
HasDashMinDot(segs) == \E i \in 1..(Len(segs) - 1) : segs[i].t = "lit" /\ StrEndsWith(segs[i].s, "-min")

\* filename.endswith(head + "." + ".".join(tail))
NameEndsWith(segs, head, tail) ==
    LET n == Len(segs)
        k == Len(tail) IN
    /\ n >= k + 1
    /\ \A j \in 1..k : segs[n - k + j] = Lit(tail[j])
    /\ (head = "" \/ (segs[n - k].t = "lit" /\ StrEndsWith(segs[n - k].s, head)))

\* one pass of the loop over exclude_patterns: does this pattern exclude the name
PatternExcludes(pat, segs) ==
    IF pat = [star |-> TRUE, head |-> "", tail |-> <<"min", "*">>] /\ HasDotMinDot(segs) THEN TRUE
    ELSE IF pat = [star |-> TRUE, head |-> "-min", tail |-> <<"*">>] /\ HasDashMinDot(segs) THEN TRUE
    ELSE IF pat.star /\ NameEndsWith(segs, pat.head, pat.tail) THEN TRUE
    ELSE IF ~pat.star /\ NameEndsWith(segs, pat.head, pat.tail) THEN TRUE
    ELSE FALSE

\* utils.should_process_file
should_process_file(file_path, supported_extensions, exclude_patterns) ==
    LET ext == normalize_extension(PathSuffix(file_path)) IN
    IF supported_extensions = {} \/ ext \notin supported_extensions THEN FALSE
    ELSE ~ \E i \in 1..Len(exclude_patterns) : PatternExcludes(exclude_patterns[i], file_path.segs)

\* FileManager.supported_extensions: `result or {}`
supported_extensions == Setting("SUPPORTED_EXTENSIONS")

\* FileManager.exclude_patterns: `result or []`
exclude_patterns == Setting("EXCLUDE_PATTERNS")

\* FileManager.min_file_size: `result or 200`, and `... or 200` again at its use
min_file_size == OrInt(OrInt(Setting("MIN_FILE_SIZE"), MIN_SIZE_FALLBACK), MIN_SIZE_FALLBACK)

\* FileManager.should_process
should_process(file_path) == should_process_file(file_path, supported_extensions, exclude_patterns)

\* utils.get_file_size: os.path.getsize, 0 when the file cannot be inspected
get_file_size(fs, p) == IF p \in DOMAIN fs THEN fs[p].len ELSE 0

\* a variant of is_compression_candidate that refuses a file of exactly the minimum size
is_compression_candidate_above(fs, file_path) == get_file_size(fs, file_path) > min_file_size

\* FileManager.is_compression_candidate
is_compression_candidate(fs, file_path) == get_file_size(fs, file_path) >= min_file_size

\* a variant of should_process_minification without the should_process test
should_process_minification_any_name(path) ==
    IF ~Setting("MINIFY_FILES") THEN FALSE
    ELSE get_file_type(path) \in {"css", "js"}

\* FileProcessorMixin.should_process_minification
should_process_minification(path) ==
    IF ~Setting("MINIFY_FILES") THEN FALSE
    ELSE IF ~should_process(path) THEN FALSE
    ELSE get_file_type(path) \in {"css", "js"}

\* FileProcessorMixin.should_process_compression
should_process_compression(fs, path) ==
    IF ~should_process(path) THEN FALSE
    ELSE is_compression_candidate(fs, path)

\* FileProcessorMixin.minify_file_content: the minifier's output, or the content
\* unchanged when the type is neither css nor js or the minifier raised
minify_file_content(content, file_type) ==
    IF file_type \in {"css", "js"}
    THEN IF MinifierRaises(content) THEN content ELSE Minifier(content)
    ELSE content

----------------------------------------------------------------------------
(* Python dicts: insertion-ordered sequences of <<key, value>> pairs *)

DictKeys(d) == [i \in 1..Len(d) |-> d[i][1]]

DictValues(d) == [i \in 1..Len(d) |-> d[i][2]]

DictHas(d, k) == \E i \in 1..Len(d) : d[i][1] = k

DictGet(d, k) == d[CHOOSE i \in 1..Len(d) : d[i][1] = k][2]

\* d[k] = v: an existing key keeps its place
DictSet(d, k, v) ==
    IF DictHas(d, k) THEN [i \in 1..Len(d) |-> IF d[i][1] = k THEN <<k, v>> ELSE d[i]]
    ELSE Append(d, <<k, v>>)

\* d.setdefault(k, []).append(v)
DictAppend(d, k, v) == IF DictHas(d, k) THEN DictSet(d, k, Append(DictGet(d, k), v)) ELSE Append(d, <<k, <<v>>>>)

----------------------------------------------------------------------------
(* storage.py: reading and writing through the storage *)

Event(ev, path, stage) == [ev |-> ev, path |-> path, stage |-> stage]

\* utils.is_safe_path: a path with a parent-directory component leaves the asset root
is_safe_path(p) == \A i \in 1..Len(p.dirs) : p.dirs[i] # ".."

\* self.exists(path) / os.path.exists(path): storage names are relative, the local
\* filesystem holds the absolute ones
storage_exists(fs, p) == ~p.abs /\ p \in DOMAIN fs

os_path_exists(fs, p) == p.abs /\ p \in DOMAIN fs

\* self.open(path) raises
OpenRaises(p) == fault = "open" /\ p.segs[1] = Lit(FaultyName)

\* self.save(path, ...) raises
SaveRaises(p) ==
    LET last == p.segs[Len(p.segs)] IN
    /\ p.segs[1] = Lit(FaultyName)
    /\ \/ fault = "save_gz" /\ last = Lit("gz")
       \/ fault = "save_br" /\ last = Lit("br")
       \/ fault = "save_min" /\ last \notin {Lit("gz"), Lit("br")}

NoContent == Content("", 0, FALSE)

\* a variant of read_file_content without the is_safe_path test
read_file_content_unchecked(fs, path) ==
    IF ~HasDefault("MAX_FILE_SIZE") THEN [k |-> "raise", c |-> NoContent, exc |-> "KeyError"]
    ELSE LET max_size == OrInt(Setting("MAX_FILE_SIZE"), MAX_SIZE_FALLBACK) IN
         IF storage_exists(fs, path)
         THEN IF OpenRaises(path) THEN [k |-> "raise", c |-> NoContent, exc |-> "OSError"]
              ELSE IF fs[path].len > max_size THEN [k |-> "none", c |-> NoContent, exc |-> "none"]
              ELSE [k |-> "content", c |-> fs[path], exc |-> "none"]
         ELSE IF os_path_exists(fs, path)
         THEN IF fs[path].len > max_size \/ OpenRaises(path)
              THEN [k |-> "none", c |-> NoContent, exc |-> "none"]
              ELSE [k |-> "content", c |-> fs[path], exc |-> "none"]
         ELSE [k |-> "none", c |-> NoContent, exc |-> "none"]

\* CompressionMixin._read_file_content: [k, c, exc] with k = "content", "none" or "raise"
read_file_content(fs, path) ==
    IF ~is_safe_path(path) THEN [k |-> "none", c |-> NoContent, exc |-> "none"]
    ELSE IF ~HasDefault("MAX_FILE_SIZE") THEN [k |-> "raise", c |-> NoContent, exc |-> "KeyError"]
    ELSE LET max_size == OrInt(Setting("MAX_FILE_SIZE"), MAX_SIZE_FALLBACK) IN
         IF storage_exists(fs, path)
         THEN IF OpenRaises(path) THEN [k |-> "raise", c |-> NoContent, exc |-> "OSError"]
              ELSE IF fs[path].len > max_size THEN [k |-> "none", c |-> NoContent, exc |-> "none"]
              ELSE [k |-> "content", c |-> fs[path], exc |-> "none"]
         ELSE IF os_path_exists(fs, path)
         THEN IF fs[path].len > max_size \/ OpenRaises(path)
              THEN [k |-> "none", c |-> NoContent, exc |-> "none"]
              ELSE [k |-> "content", c |-> fs[path], exc |-> "none"]
         ELSE [k |-> "none", c |-> NoContent, exc |-> "none"]

\* a variant of _write_file_content that swallows a failure of self.save
write_file_content_swallowing(fs, path, content) ==
    IF ~is_safe_path(path) \/ SaveRaises(path) THEN [k |-> "skipped", fs |-> fs]
    ELSE [k |-> "saved", fs |-> (path :> content) @@ fs]

\* CompressionMixin._write_file_content: [k, fs] with k = "saved", "skipped" or "raise"
write_file_content(fs, path, content) ==
    IF ~is_safe_path(path) THEN [k |-> "skipped", fs |-> fs]
    ELSE IF SaveRaises(path) THEN [k |-> "raise", fs |-> fs]
    ELSE [k |-> "saved", fs |-> (path :> content) @@ fs]

\* a variant of gzip_level without the clamp to the valid range
gzip_level_unclamped == OrInt(Setting("COMPRESSION_LEVEL_GZIP"), GZIP_LEVEL_FALLBACK)

\* the level handed to gzip.GzipFile
gzip_level == LET level == OrInt(Setting("COMPRESSION_LEVEL_GZIP"), GZIP_LEVEL_FALLBACK) IN
    IF level > GZIP_LEVEL_MAX THEN GZIP_LEVEL_MAX ELSE IF level < 0 THEN 0 ELSE level

\* the quality handed to brotli.compress
brotli_level == LET level == OrInt(Setting("COMPRESSION_LEVEL_BROTLI"), BROTLI_LEVEL_FALLBACK) IN
    IF level > BROTLI_LEVEL_MAX THEN BROTLI_LEVEL_MAX ELSE IF level < 0 THEN 0 ELSE level

\* the encoder raises on this content
CodecRaises(codec, c) == fault = (IF codec = "gz" THEN "gzip" ELSE "brotli") /\ c.id = FaultyText

\* CompressionMixin.gzip_compress
gzip_compress(content) == Encoded(content, "gz", gzip_level)

\* CompressionMixin.brotli_compress
brotli_compress(content) == Encoded(content, "br", brotli_level)

----------------------------------------------------------------------------
(* storage.py: the Minification Stage *)

\* a variant of MinifiedPath whose hash covers the minified content only
MinifiedPathHashOfContent(path, minified_content) ==
    LET file_hash == generate_file_hash(ContentBytes(minified_content)) IN
    [path EXCEPT !.segs = PathStem(path) \o <<Lit("min"), file_hash>> \o PathSuffix(path)]

\* the stem, ".min.<hash>" and the suffix, under the parent directory of the path
MinifiedPath(path, minified_content) ==
    LET file_hash == generate_file_hash(PathBytes(path) \o ContentBytes(minified_content)) IN
    [path EXCEPT !.segs = PathStem(path) \o <<Lit("min"), file_hash>> \o PathSuffix(path)]

\* a variant of ReducedSize that accepts a result of equal length
NotLarger(minified_content, content) == minified_content.len <= content.len

\* `len(minified_content) < len(content)`
ReducedSize(minified_content, content) == minified_content.len < content.len

\* `except Exception as e: logger.error(...); continue` of the minification loop
MinifyExcept(acc, e) == acc

\* the body of the loop of process_minification for one path, after the cap test
MinifyOne(path, acc) ==
    IF ~should_process_minification(path) THEN acc
    ELSE LET r == read_file_content(acc.fs, path) IN
    IF r.k = "raise" THEN MinifyExcept(acc, r.exc)
    ELSE IF r.k = "none" THEN acc
    ELSE LET read == [acc EXCEPT !.log = Append(@, Event("read", path, "minify"))] IN
    IF ~r.c.text THEN read
    ELSE LET minified_content == minify_file_content(r.c, get_file_type(path)) IN
    IF ~ReducedSize(minified_content, r.c) THEN read
    ELSE LET minified_path == MinifiedPath(path, minified_content)
             w == write_file_content(read.fs, minified_path, minified_content) IN
    IF w.k = "raise" THEN MinifyExcept(read, "OSError")
    ELSE [read EXCEPT !.fs = w.fs,
                      !.log = IF w.k = "saved" THEN Append(@, Event("write", minified_path, "minify")) ELSE @,
                      !.map = DictSet(@, path, minified_path),
                      !.count = @ + 1]

RECURSIVE MinifyLoop(_, _, _, _)
\* `for path in paths:` with the cap test that breaks out of it
MinifyLoop(paths, i, max_files, acc) ==
    IF i > Len(paths) \/ acc.raised THEN acc
    ELSE IF acc.count >= max_files THEN acc
    ELSE MinifyLoop(paths, i + 1, max_files, MinifyOne(paths[i], acc))

StageStart(fs, lg) == [fs |-> fs, log |-> lg, map |-> <<>>, count |-> 0, raised |-> FALSE, exc |-> "none"]

StageRaise(fs, lg, e) == [fs |-> fs, log |-> lg, map |-> <<>>, count |-> 0, raised |-> TRUE, exc |-> e]

\* MinificationMixin.process_minification
process_minification(fs, lg, paths) ==
    IF ~Setting("MINIFY_FILES") THEN StageStart(fs, lg)
    ELSE IF ~HasDefault("MAX_FILES_PER_RUN") THEN StageRaise(fs, lg, "KeyError")
    ELSE LET max_files == OrInt(Setting("MAX_FILES_PER_RUN"), MAX_FILES_FALLBACK) IN
         MinifyLoop(paths, 1, max_files, StageStart(fs, lg))

----------------------------------------------------------------------------
(* storage.py: the Compression Stage *)

\* `except Exception as e: logger.error(...); continue` of the compression loop
CompressExcept(acc, e) == acc

\* one codec of the loop body: encode, write `<relative_path>.<ext>`, record it
CompressWith(codec, path, relative_path, content, acc) ==
    IF acc.raised THEN acc
    ELSE IF CodecRaises(codec, content) THEN [acc EXCEPT !.raised = TRUE, !.exc = "CodecError"]
    ELSE LET sibling == WithSuffix(relative_path, codec)
             encoded == IF codec = "gz" THEN gzip_compress(content) ELSE brotli_compress(content)
             w == write_file_content(acc.fs, sibling, encoded) IN
    IF w.k = "raise" THEN [acc EXCEPT !.raised = TRUE, !.exc = "OSError"]
    ELSE [acc EXCEPT !.fs = w.fs,
                     !.log = IF w.k = "saved" THEN Append(@, Event("write", sibling, "compress")) ELSE @,
                     !.map = DictAppend(@, path, sibling)]

\* the body of the loop of process_compression for one path, after the cap test
CompressOne(path, acc) ==
    IF ~should_process_compression(acc.fs, path) THEN acc
    ELSE LET r == read_file_content(acc.fs, path) IN
    IF r.k = "raise" THEN CompressExcept(acc, r.exc)
    ELSE IF r.k = "none" THEN acc
    ELSE LET read == [acc EXCEPT !.log = Append(@, Event("read", path, "compress"))]
             relative_path == StorageRelative(path)
             gz == IF Setting("GZIP_COMPRESSION") THEN CompressWith("gz", path, relative_path, r.c, read) ELSE read
             br == IF Setting("BROTLI_COMPRESSION") THEN CompressWith("br", path, relative_path, r.c, gz) ELSE gz IN
    IF br.raised THEN CompressExcept([br EXCEPT !.raised = FALSE, !.exc = "none"], br.exc)
    ELSE [br EXCEPT !.count = @ + 1]

RECURSIVE CompressLoop(_, _, _, _)
\* `for path in paths:` with the cap test that breaks out of it
CompressLoop(paths, i, max_files, acc) ==
    IF i > Len(paths) \/ acc.raised THEN acc
    ELSE IF acc.count >= max_files THEN acc
    ELSE CompressLoop(paths, i + 1, max_files, CompressOne(paths[i], acc))

\* CompressionMixin.process_compression
process_compression(fs, lg, paths) ==
    IF ~(Setting("GZIP_COMPRESSION") \/ Setting("BROTLI_COMPRESSION")) THEN StageStart(fs, lg)
    ELSE IF ~HasDefault("MAX_FILES_PER_RUN") THEN StageRaise(fs, lg, "KeyError")
    ELSE LET max_files == OrInt(Setting("MAX_FILES_PER_RUN"), MAX_FILES_FALLBACK) IN
         CompressLoop(paths, 1, max_files, StageStart(fs, lg))

----------------------------------------------------------------------------
(* The persisted manifest and storage.py: the Manifest Rewriter *)

\* the manifest file: present or not, well-formed JSON or not, and the document
\* it holds: the members of "paths" in file order and the other top-level members
ManifestFile(exists, wf, has_paths, paths, version) ==
    [exists |-> exists, wf |-> wf, has_paths |-> has_paths, paths |-> paths, version |-> version]

NoManifest == ManifestFile(FALSE, TRUE, FALSE, <<>>, "")

\* self.manifest_name
manifest_name == RelPath(<<>>, <<"staticfiles", "json">>)

RECURSIVE JsonObject(_, _, _)
\* json.loads of an object: a repeated key keeps its first place and its last value
JsonObject(pairs, i, d) ==
    IF i > Len(pairs) THEN d ELSE JsonObject(pairs, i + 1, DictSet(d, pairs[i][1], pairs[i][2]))

\* json.loads(manifest_json): the dict of a well-formed file
json_loads(m) == [has_paths |-> m.has_paths, paths |-> JsonObject(m.paths, 1, <<>>), version |-> m.version]

\* json.dumps(manifest) written as the new manifest file
json_dumps(d) == ManifestFile(TRUE, TRUE, d.has_paths, d.paths, d.version)

\* the index of the first entry of `paths` whose value is `current`, 0 if none
FirstWithValue(paths, current) ==
    IF \E i \in 1..Len(paths) : paths[i][2] = current
    THEN CHOOSE i \in 1..Len(paths) : paths[i][2] = current /\ \A j \in 1..(i - 1) : paths[j][2] # current
    ELSE 0

\* a variant of RedirectEntry without the `break`: every matching entry is redirected
RedirectEveryEntry(paths, hashed_relative, minified_relative) ==
    [i \in 1..Len(paths) |-> IF paths[i][2] = hashed_relative THEN <<paths[i][1], minified_relative>> ELSE paths[i]]

\* the inner loop of _update_manifest: redirect the entry found, then `break`
RedirectEntry(paths, hashed_relative, minified_relative) ==
    LET i == FirstWithValue(paths, hashed_relative) IN
    IF i = 0 THEN paths ELSE [paths EXCEPT ![i] = <<paths[i][1], minified_relative>>]

RECURSIVE RedirectAll(_, _, _)
\* `for hashed_path, minified_path in minified_files.items():`
RedirectAll(paths, minified_files, i) ==
    IF i > Len(minified_files) THEN paths
    ELSE RedirectAll(RedirectEntry(paths, StorageRelative(minified_files[i][1]),
                                   StorageRelative(minified_files[i][2])),
                     minified_files, i + 1)

\* `except Exception as e: logger.error(...)` of _update_manifest
ManifestExcept(m, lg, e) == [manifest |-> m, log |-> lg, raised |-> FALSE, exc |-> "none"]

\* delete the old manifest, then save the new one
ReplaceManifest(m, lg, new) ==
    IF m.exists /\ fault = "m_delete" THEN ManifestExcept(m, lg, "OSError")
    ELSE LET deleted == IF m.exists THEN NoManifest ELSE m
             lg2 == IF m.exists THEN Append(lg, Event("delete", manifest_name, "manifest")) ELSE lg IN
         IF fault = "m_save" THEN ManifestExcept(deleted, lg2, "OSError")
         ELSE [manifest |-> new, log |-> Append(lg2, Event("save", manifest_name, "manifest")),
               raised |-> FALSE, exc |-> "none"]

\* MinicompressStorage._update_manifest
update_manifest(m, lg, minified_files) ==
    IF fault = "m_read" THEN ManifestExcept(m, lg, "OSError")
    ELSE IF m.exists /\ ~m.wf THEN ManifestExcept(m, lg, "JSONDecodeError")
    ELSE LET loaded == IF m.exists THEN json_loads(m) ELSE [has_paths |-> FALSE, paths |-> <<>>, version |-> ""]
             doc == IF loaded.has_paths THEN loaded ELSE [loaded EXCEPT !.has_paths = TRUE, !.paths = <<>>]
             new == [doc EXCEPT !.paths = RedirectAll(doc.paths, minified_files, 1)] IN
         ReplaceManifest(m, lg, json_dumps(new))

----------------------------------------------------------------------------
(* The host: the files collected, the configurations, the default post-processing *)

AppCss == RelPath(<<"css">>, <<"app", "css">>)
SiteJs == RelPath(<<>>, <<"site", "js">>)
DataJson == RelPath(<<>>, <<"data", "json">>)
LibMinCss == RelPath(<<>>, <<"lib", "min", "css">>)
MidCss == RelPath(<<>>, <<"mid", "css">>)
TightCss == RelPath(<<>>, <<"tight", "css">>)
BinCss == RelPath(<<>>, <<"bin", "css">>)
EvilCss == RelPath(<<"..">>, <<"evil", "css">>)
SrvCss == AbsPath(<<"srv">>, <<"app", "css">>)

\* the assets the host has collected into the asset root, and two files outside it
Collected ==
    (AppCss :> Content("big", 300, TRUE)) @@ (SiteJs :> Content("tiny", 19, TRUE)) @@
    (DataJson :> Content("data", 300, TRUE)) @@ (LibMinCss :> Content("lib", 300, TRUE)) @@
    (MidCss :> Content("mid", 260, TRUE)) @@ (TightCss :> Content("tight", 14, TRUE)) @@
    (BinCss :> Content("bin", 300, FALSE)) @@ (EvilCss :> Content("big", 300, TRUE)) @@
    (SrvCss :> Content("big", 300, TRUE))

\* the names collectstatic hands to post_process
Supplied == {AppCss, SiteJs, DataJson, LibMinCss, MidCss, TightCss, BinCss}

\* the host configurations tried: the MINICOMPRESS_* names the host defines
HostConfigs ==
    << <<>>,
       [MINIFY_FILES |-> FALSE],
       [GZIP_COMPRESSION |-> FALSE],
       [BROTLI_COMPRESSION |-> FALSE],
       [GZIP_COMPRESSION |-> FALSE, BROTLI_COMPRESSION |-> FALSE],
       [MINIFY_FILES |-> FALSE, GZIP_COMPRESSION |-> FALSE, BROTLI_COMPRESSION |-> FALSE],
       [MAX_FILES_PER_RUN |-> 1],
       [MAX_FILES_PER_RUN |-> 5, MAX_FILE_SIZE |-> 280],
       [MIN_FILE_SIZE |-> 0],
       [EXCLUDE_PATTERNS |-> << [star |-> TRUE, head |-> "", tail |-> <<"json">>] >>],
       [SUPPORTED_EXTENSIONS |-> {}],
       [MIN_FILE_SIZE |-> 260],
       [MAX_FILES_PER_RUN |-> 0],
       [COMPRESSION_LEVEL_GZIP |-> 0, COMPRESSION_LEVEL_BROTLI |-> 0],
       [COMPRESSION_LEVEL_GZIP |-> -3, COMPRESSION_LEVEL_BROTLI |-> -3],
       [COMPRESSION_LEVEL_GZIP |-> 20, COMPRESSION_LEVEL_BROTLI |-> 20],
       [COMPRESSION_LEVEL_GZIP |-> 5, COMPRESSION_LEVEL_BROTLI |-> 5] >>

\* the failures of the environment tried
StageFaults == {"open", "minify", "save_min", "gzip", "save_gz", "brotli", "save_br"}

ManifestFaults == {"m_read", "m_delete", "m_save"}

\* HashedFilesMixin.hashed_name: the content hash before the extension
HostHashedName(p, c) ==
    [p EXCEPT !.segs = PathStem(p) \o <<generate_file_hash(ContentBytes(c))>> \o PathSuffix(p)]

RECURSIVE HostCollect(_, _, _)
\* the host's post_process over the supplied names, not a dry run: the hashed copy
\* is stored, the name is reported, and the pair enters the manifest
HostCollect(paths, i, acc) ==
    IF i > Len(paths) THEN acc
    ELSE LET p == paths[i]
             h == HostHashedName(p, acc.fs[p]) IN
         HostCollect(paths, i + 1,
             [fs |-> (h :> acc.fs[p]) @@ acc.fs,
              log |-> Append(acc.log, Event("write", h, "host")),
              yielded |-> Append(acc.yielded, <<p, h, TRUE>>),
              paths |-> DictSet(acc.paths, p, h)])

\* ManifestFilesMixin.post_process, not a dry run: HostCollect, then save_manifest
HostPostProcess(fs, lg, paths) ==
    LET c == HostCollect(paths, 1, [fs |-> fs, log |-> lg, yielded |-> <<>>, paths |-> <<>>]) IN
    [fs |-> c.fs, log |-> Append(c.log, Event("save", manifest_name, "host")),
     yielded |-> c.yielded, manifest |-> ManifestFile(TRUE, TRUE, TRUE, c.paths, "1.1")]

----------------------------------------------------------------------------
(* The inputs tried *)

\* the lists of at most n elements of S without repetition (the keys of a dict)
RECURSIVE Lists(_, _)
Lists(S, n) ==
    IF n = 0 THEN {<<>>}
    ELSE LET shorter == Lists(S, n - 1) IN
         shorter \cup {Append(l, x) : l \in {k \in shorter : Len(k) = n - 1},
                                      x \in S} 

NoRepeat(l) == \A i, j \in 1..Len(l) : i # j => l[i] # l[j]

KeyLists(S, n) == {l \in Lists(S, n) : NoRepeat(l)}

HashedApp == HostHashedName(AppCss, Collected[AppCss])
HashedSite == HostHashedName(SiteJs, Collected[SiteJs])
MinifiedApp == MinifiedPath(HashedApp, Minifier(Collected[AppCss]))
MinifiedSite == MinifiedPath(HashedSite, Minifier(Collected[SiteJs]))
PrintCss == RelPath(<<"css">>, <<"print", "css">>)
AbsOf(p) == [p EXCEPT !.abs = TRUE]

\* the persisted manifests _update_manifest is tried on
Manifests ==
    << NoManifest,
       ManifestFile(TRUE, TRUE, TRUE, << <<AppCss, HashedApp>>, <<SiteJs, HashedSite>> >>, "1.1"),
       ManifestFile(TRUE, TRUE, TRUE, << <<AppCss, HashedApp>>, <<PrintCss, HashedApp>> >>, "1.1"),
       ManifestFile(TRUE, TRUE, TRUE, << <<AppCss, HashedApp>>, <<SiteJs, HashedSite>>, <<AppCss, HashedSite>> >>, "1.1"),
       ManifestFile(TRUE, TRUE, FALSE, <<>>, "1.0"),
       ManifestFile(TRUE, FALSE, FALSE, <<>>, "") >>

\* the minified-files maps _update_manifest is tried on
MinifiedMaps ==
    << <<>>,
       << <<HashedApp, MinifiedApp>> >>,
       << <<HashedApp, MinifiedApp>>, <<HashedSite, MinifiedSite>> >>,
       << <<AbsOf(HashedApp), AbsOf(MinifiedApp)>> >>,
       << <<HashedSite, MinifiedSite>>, <<HashedApp, MinifiedApp>> >>,
       << <<MinifiedSite, MinifiedApp>> >> >>

NoCall == [op |-> "none", paths |-> <<>>, dry_run |-> FALSE, minified_files |-> <<>>, host_report |-> <<>>]

NoLocals == [processed_paths |-> <<>>, minified_files |-> <<>>, all_paths |-> <<>>]

\* the host's report in a dry run: whatever its own step yields
HostDryReports(paths) == {<<>>, [i \in 1..Len(paths) |-> <<paths[i], paths[i], FALSE>>]}

----------------------------------------------------------------------------
(* The state machine *)

\* one environment: a host configuration with no failure, or the default
\* configuration with one failure
Environment(cfg, f) ==
    /\ \/ cfg \in 1..Len(HostConfigs) /\ f = "none"
       \/ cfg = 1 /\ f \in StageFaults \cup ManifestFaults
    /\ settings = HostConfigs[cfg]
    /\ fault = f

InitRest ==
    /\ files = Collected
    /\ pc = "start"
    /\ loc = NoLocals
    /\ results = <<>>
    /\ ret = <<>>
    /\ exc = "none"
    /\ log = <<>>

\* a call of post_process(paths, dry_run)
InitPostProcess ==
    /\ \E cfg \in 1..Len(HostConfigs), f \in {"none"} \cup StageFaults \cup ManifestFaults : Environment(cfg, f)
    /\ manifest \in {Manifests[1], Manifests[2]}
    /\ \E paths \in KeyLists(Supplied, MaxPaths), dry \in BOOLEAN :
        \E rep \in (IF dry THEN HostDryReports(paths) ELSE {<<>>}) :
            call = [NoCall EXCEPT !.op = "post_process", !.paths = paths, !.dry_run = dry, !.host_report = rep]
    /\ InitRest

\* a call of process_minification(paths) or process_compression(paths)
InitStage ==
    /\ \E cfg \in 1..Len(HostConfigs), f \in {"none"} \cup StageFaults : Environment(cfg, f)
    /\ manifest = Manifests[1]
    /\ \E paths \in Lists(DOMAIN Collected, MaxPaths), op \in {"process_minification", "process_compression"} :
            call = [NoCall EXCEPT !.op = op, !.paths = paths]
    /\ InitRest

\* a call of _update_manifest(minified_files)
InitManifest ==
    /\ \E f \in {"none"} \cup ManifestFaults : Environment(1, f)
    /\ \E i \in 1..Len(Manifests) : manifest = Manifests[i]
    /\ \E i \in 1..Len(MinifiedMaps) : call = [NoCall EXCEPT !.op = "_update_manifest", !.minified_files = MinifiedMaps[i]]
    /\ InitRest

InitCalls == InitPostProcess \/ InitStage \/ InitManifest

\* the code as it is: DEFAULT_SETTINGS is the table of conf.py
Init == defaults = DEFAULT_SETTINGS /\ InitCalls

\* the code with the two rows of the specification's settings table added
InitTable == defaults = DEFAULT_SETTINGS @@ TABLE_ROWS_OF_SPEC /\ InitCalls

\* a variant of PostProcessHost without `if dry_run: return`
PostProcessHostWithoutReturn ==
    /\ pc = "start" /\ call.op = "post_process"
    /\ IF call.dry_run
       THEN /\ results' = call.host_report
            /\ UNCHANGED <<files, manifest, log>>
       ELSE LET h == HostPostProcess(files, log, call.paths) IN
            /\ results' = h.yielded
            /\ files' = h.fs
            /\ manifest' = h.manifest
            /\ log' = h.log
    /\ pc' = "pp_read"
    /\ UNCHANGED <<defaults, settings, fault, call, loc, ret, exc>>

\* post_process, line 1: `yield from super().post_process(...)`, then the dry-run return
PostProcessHost ==
    /\ pc = "start" /\ call.op = "post_process"
    /\ IF call.dry_run
       THEN /\ results' = call.host_report
            /\ pc' = "done"
            /\ UNCHANGED <<files, manifest, log>>
       ELSE LET h == HostPostProcess(files, log, call.paths) IN
            /\ results' = h.yielded
            /\ files' = h.fs
            /\ manifest' = h.manifest
            /\ log' = h.log
            /\ pc' = "pp_read"
    /\ UNCHANGED <<defaults, settings, fault, call, loc, ret, exc>>

\* the values of manifest["paths"]; [] when the manifest cannot be read or parsed
ManifestValues(m) ==
    IF fault = "m_read" \/ ~m.exists \/ ~m.wf THEN <<>>
    ELSE LET d == json_loads(m) IN IF d.has_paths THEN DictValues(d.paths) ELSE <<>>

\* post_process: processed_paths from the manifest, or the supplied names
PostProcessRead ==
    /\ pc = "pp_read"
    /\ LET from_manifest == ManifestValues(manifest) IN
       loc' = [loc EXCEPT !.processed_paths = IF from_manifest = <<>> THEN call.paths ELSE from_manifest]
    /\ pc' = "pp_minify"
    /\ UNCHANGED <<defaults, settings, files, manifest, fault, call, results, ret, exc, log>>

\* `for original, minified in minified_files.items(): yield original, minified, True`
YieldMinified(minified_files) == [i \in 1..Len(minified_files) |-> <<minified_files[i][1], minified_files[i][2], TRUE>>]

\* post_process: the Minification Stage over processed_paths, its entries yielded
PostProcessMinify ==
    /\ pc = "pp_minify"
    /\ LET r == process_minification(files, log, loc.processed_paths) IN
       IF r.raised
       THEN /\ pc' = "raised" /\ exc' = r.exc
            /\ UNCHANGED <<files, log, loc, results>>
       ELSE /\ pc' = "pp_compress" /\ exc' = exc
            /\ files' = r.fs /\ log' = r.log
            /\ loc' = [loc EXCEPT !.minified_files = r.map]
            /\ results' = results \o YieldMinified(r.map)
    /\ UNCHANGED <<defaults, settings, manifest, fault, call, ret>>

\* `all_paths = processed_paths + list(minified_files.values())`
AllPaths(processed_paths, minified_files) == processed_paths \o DictValues(minified_files)

\* post_process: the Compression Stage over all_paths
PostProcessCompress ==
    /\ pc = "pp_compress"
    /\ LET all_paths == AllPaths(loc.processed_paths, loc.minified_files)
           r == process_compression(files, log, all_paths) IN
       /\ loc' = [loc EXCEPT !.all_paths = all_paths]
       /\ IF r.raised
          THEN /\ pc' = "raised" /\ exc' = r.exc
               /\ UNCHANGED <<files, log>>
          ELSE /\ pc' = "pp_manifest" /\ exc' = exc
               /\ files' = r.fs /\ log' = r.log
    /\ UNCHANGED <<defaults, settings, manifest, fault, call, results, ret>>

\* a variant of RewriteWanted that rewrites the manifest in every run
RewriteAlways(minified_files) == TRUE

\* `if minified_files:` guards the manifest rewrite
RewriteWanted(minified_files) == minified_files # <<>>

\* post_process: the manifest rewrite, when a file was minified
PostProcessManifest ==
    /\ pc = "pp_manifest"
    /\ IF RewriteWanted(loc.minified_files)
       THEN LET u == update_manifest(manifest, log, loc.minified_files) IN
            /\ manifest' = u.manifest /\ log' = u.log
            /\ pc' = IF u.raised THEN "raised" ELSE "done"
            /\ exc' = u.exc
       ELSE /\ pc' = "done"
            /\ UNCHANGED <<manifest, log, exc>>
    /\ UNCHANGED <<defaults, settings, files, fault, call, loc, results, ret>>

\* process_minification(paths) called on its own
CallMinification ==
    /\ pc = "start" /\ call.op = "process_minification"
    /\ LET r == process_minification(files, log, call.paths) IN
       /\ pc' = IF r.raised THEN "raised" ELSE "done"
       /\ exc' = r.exc
       /\ files' = r.fs /\ log' = r.log /\ ret' = r.map
    /\ UNCHANGED <<defaults, settings, manifest, fault, call, loc, results>>

\* process_compression(paths) called on its own
CallCompression ==
    /\ pc = "start" /\ call.op = "process_compression"
    /\ LET r == process_compression(files, log, call.paths) IN
       /\ pc' = IF r.raised THEN "raised" ELSE "done"
       /\ exc' = r.exc
       /\ files' = r.fs /\ log' = r.log /\ ret' = r.map
    /\ UNCHANGED <<defaults, settings, manifest, fault, call, loc, results>>

\* _update_manifest(minified_files) called on its own
CallUpdateManifest ==
    /\ pc = "start" /\ call.op = "_update_manifest"
    /\ LET u == update_manifest(manifest, log, call.minified_files) IN
       /\ manifest' = u.manifest /\ log' = u.log
       /\ pc' = IF u.raised THEN "raised" ELSE "done"
       /\ exc' = u.exc
    /\ UNCHANGED <<defaults, settings, files, fault, call, loc, results, ret>>

Next ==
    \/ PostProcessHost
    \/ PostProcessRead
    \/ PostProcessMinify
    \/ PostProcessCompress
    \/ PostProcessManifest
    \/ CallMinification
    \/ CallCompression
    \/ CallUpdateManifest

Spec == Init /\ [][Next]_vars

SpecTable == InitTable /\ [][Next]_vars

----------------------------------------------------------------------------
(* Properties *)

\* the paths of a list, as a set
Range(seq) == {seq[i] : i \in 1..Len(seq)}

\* the failure of the environment leaves this collected file alone
Unharmed(p) == fault = "none" \/ (p.segs[1] # Lit(FaultyName) /\ Collected[p].id # FaultyText)

\* a collected file the Minification Stage accepts: eligible, readable text, made shorter
Minifiable(p) ==
    /\ should_process_minification(p) /\ is_safe_path(p)
    /\ Collected[p].text /\ MinifiedLen(Collected[p]) < Collected[p].len

\* a collected file the Compression Stage accepts
Compressible(p) == should_process_compression(Collected, p) /\ is_safe_path(p)

\* C1: a failure local to one path (unreadable file, undecodable bytes, minifier or
\* compressor error, failed write) never makes process_minification,
\* process_compression or a non-dry-run post_process raise; the failing path is
\* skipped, every other path of the list is still processed and the stage returns
\* its result map.
C1_LocalFailureNeverAbortsTheBatch ==
    /\ (call.op \in {"process_minification", "process_compression", "post_process"} /\ fault \in StageFaults)
         => pc # "raised"
    /\ (pc = "done" /\ call.op = "process_minification" /\ DOMAIN settings = {}) =>
         \A p \in Range(call.paths) :
            (Unharmed(p) /\ Minifiable(p)) => (DictHas(ret, p) /\ DictGet(ret, p) \in DOMAIN files)
    /\ (pc = "done" /\ call.op = "process_compression" /\ DOMAIN settings = {}) =>
         \A p \in Range(call.paths) :
            (Unharmed(p) /\ Compressible(p)) =>
                /\ DictHas(ret, p)
                /\ WithSuffix(StorageRelative(p), "gz") \in DOMAIN files
                /\ WithSuffix(StorageRelative(p), "br") \in DOMAIN files

\* a stage called on a list whose first file cannot be opened and whose second is sound
C1_Witness ==
    /\ call.op = "process_minification" /\ fault = "open" /\ pc # "start"
    /\ call.paths = <<AppCss, MidCss>>

\* C2: with dry_run set, for any input path set, post_process writes no minified and
\* no compressed file, leaves the persisted manifest alone, and reports to its
\* caller exactly what the host's own post-processing step reports.
C2_DryRunIsTransparent ==
    [][(call.op = "post_process" /\ call.dry_run) =>
          /\ files' = files /\ manifest' = manifest /\ log' = log
          /\ results' = call.host_report
          /\ pc' = "done"]_vars

\* a finished dry run over two paths whose host step reported them
C2_Witness ==
    /\ call.op = "post_process" /\ call.dry_run /\ pc = "done"
    /\ Len(call.paths) = MaxPaths /\ results # <<>> /\ manifest.exists
    /\ files = Collected

\* the settings the pipeline reads
SettingsRead ==
    {"MINIFY_FILES", "GZIP_COMPRESSION", "BROTLI_COMPRESSION", "MIN_FILE_SIZE",
     "COMPRESSION_LEVEL_GZIP", "COMPRESSION_LEVEL_BROTLI", "SUPPORTED_EXTENSIONS",
     "EXCLUDE_PATTERNS", "MAX_FILES_PER_RUN", "MAX_FILE_SIZE"}

\* C7: for every setting the pipeline reads (MAX_FILES_PER_RUN and MAX_FILE_SIZE
\* included), a lookup of a setting the host does not define never raises and yields
\* the default of the table; a run with no MINICOMPRESS_* setting configured never
\* fails because of configuration resolution.
C7_AbsentSettingYieldsDefault ==
    (DOMAIN settings = {} /\ pc \in {"done", "raised"}) =>
        /\ exc # "KeyError"
        /\ \A name \in SettingsRead : HasDefault(name) /\ get_setting(name, defaults[name]) = defaults[name]

\* a run with nothing configured that ended with the KeyError of the table lookup
C7_Witness == DOMAIN settings = {} /\ fault = "none" /\ pc = "raised" /\ exc = "KeyError"

\* a post_process that is not a dry run
NonDry == call.op = "post_process" /\ ~call.dry_run

\* post_process has passed its Minification Stage / its Compression Stage
AfterMinify == pc \in {"pp_compress", "pp_manifest", "done"}

AfterCompress == pc \in {"pp_manifest", "done"}

\* the position of a stage in the pipeline
StageRank(stage) ==
    CASE stage = "host" -> 1 [] stage = "minify" -> 2 [] stage = "compress" -> 3 [] OTHER -> 4

\* the paths written by a stage so far
Written(stage) == {log[i].path : i \in {j \in 1..Len(log) : log[j].ev = "write" /\ log[j].stage = stage}}

\* the saves of the manifest by the Manifest Rewriter so far
ManifestSaves == {i \in 1..Len(log) : log[i] = Event("save", manifest_name, "manifest")}

SiblingName(path_stem, path_suffix, hashed, m) ==
    path_stem \o <<Lit("min"), [t |-> "md5", s |-> "", of |-> <<[path |-> hashed], [content |-> files[m]]>>]>> \o path_suffix

UpdateStep ==
    \/ call.op = "_update_manifest" /\ pc = "start"
    \/ pc = "pp_manifest" /\ loc.minified_files # <<>>

UpdateMap == IF call.op = "_update_manifest" THEN call.minified_files ELSE loc.minified_files

\* the Manifest Rewriter has saved a manifest
SavedBy(lg) == \E i \in 1..Len(lg) : lg[i] = Event("save", manifest_name, "manifest")

\* the entries of "paths" of a persisted manifest, none when it has no such member
PathsOf(m) == IF m.exists /\ m.wf /\ m.has_paths THEN json_loads(m).paths ELSE <<>>

\* the entries of a map that name this value as their hashed path, absolute paths
\* taken in storage-relative form
EntriesFor(mf, value) == {k \in 1..Len(mf) : StorageRelative(mf[k][1]) = value}

\* a map as the Minification Stage returns it: the hashed paths differ from each
\* other in storage-relative form and no minified path is one of the hashed paths
PlainMap(mf) ==
    \A j, k \in 1..Len(mf) :
        /\ (j # k => StorageRelative(mf[j][1]) # StorageRelative(mf[k][1]))
        /\ StorageRelative(mf[j][2]) # StorageRelative(mf[k][1])

C6_FailedUpdateLeavesTheManifest ==
    [][(UpdateStep /\ ~SavedBy(log')) =>
          (pc' = "done" /\ exc' = "none" /\ manifest' = manifest)]_vars

\* an update on an existing manifest whose save failed after the delete
C6_Witness ==
    /\ call.op = "_update_manifest" /\ pc = "done" /\ fault = "m_save"
    /\ ~SavedBy(log) /\ log # <<>>

\* a path with a parent-directory component
Traverses(p) == \E i \in 1..Len(p.dirs) : p.dirs[i] = ".."

\* a call of one of the two stages on its own
StageCall == call.op \in {"process_minification", "process_compression"}

StageStep == (StageCall /\ pc = "start") \/ pc \in {"pp_minify", "pp_compress"}

StepInputs ==
    IF StageCall THEN Range(call.paths)
    ELSE IF pc = "pp_minify" THEN Range(loc.processed_paths)
    ELSE Range(loc.processed_paths) \cup {loc.minified_files[i][2] : i \in 1..Len(loc.minified_files)}

ReadBy(stage) == {log[i].path : i \in {j \in 1..Len(log) : log[j].ev = "read" /\ log[j].stage = stage}}

\* the extension of a path is in the allow-list and no exclude pattern matches its name
PassesEligibility(p) ==
    LET n == Len(p.segs)
        allowed == get_setting("SUPPORTED_EXTENSIONS", defaults.SUPPORTED_EXTENSIONS)
        patterns == get_setting("EXCLUDE_PATTERNS", defaults.EXCLUDE_PATTERNS) IN
    /\ n >= 2 /\ p.segs[n].t = "lit" /\ p.segs[n].s \in allowed
    /\ \A i \in 1..Len(patterns) : ~PatternExcludes(patterns[i], p.segs)

MinimumSize == get_setting("MIN_FILE_SIZE", defaults.MIN_FILE_SIZE)

MinifyWrites == {i \in 1..Len(log) : log[i].ev = "write" /\ log[i].stage = "minify"}

EncodedBy(codec) ==
    {p \in DOMAIN files : files[p].enc # <<>> /\ files[p].enc[Len(files[p].enc)] = codec}

\* the level a codec was handed is in range, is the greatest one when the setting
\* is not configured, and is never a configured zero or negative value
LevelInRange(name, handed, greatest) ==
    /\ handed \in 0..greatest
    /\ name \notin DOMAIN settings => handed = greatest
    /\ (name \in DOMAIN settings /\ settings[name] <= 0) => handed # settings[name]

HasExtension(p, ext) == p.segs[Len(p.segs)] = Lit(ext)

\* a path that was written by the stage in this call and is in storage, and whose
\* save did not fail
Produced(p, stage) == p \in Written(stage) /\ p \in DOMAIN files /\ ~SaveRaises(p)

====
